---------------------------- MODULE Spec2Model ----------------------------
(***************************************************************************)
(* A model of intake_esgf.catalog.ESGFCatalog (src/intake_esgf/catalog.py) *)
(* and of the completeness predicate of src/examples/find_ilamb_models.py. *)
(*                                                                         *)
(* The catalog object is the state: its working set `df`, its configured   *)
(* `esgf_data_root`, and a record `call` of the last public operation (its *)
(* arguments, the working set it started from, what it raised, and the     *)
(* calls it made to its collaborators).  Every public method is one        *)
(* action that models the whole method.                                    *)
(*                                                                         *)
(* A pandas frame is modelled as the set of its rows: a row stands for its *)
(* index label, so `DataFrame.drop(index)` is set difference.  A string    *)
(* that the code takes apart (the member identifier) is a sequence of      *)
(* one-character strings.                                                  *)
(***************************************************************************)
EXTENDS Integers, Sequences, FiniteSets, TLC

VARIABLES df_is_None, df, esgf_data_root, call

vars == <<df_is_None, df, esgf_data_root, call>>

(***************************************************************************)
(* Bounds of the model.                                                    *)
(***************************************************************************)
\* Largest working set the filter specification starts from.
MaxRows == 3

(***************************************************************************)
(* Facet values.                                                           *)
(***************************************************************************)
SourceIds == {"CESM2", "UKESM"}
GridLabels == {"gn", "gr"}
VariableIds == {"lai", "nbp"}

r2i1p1f1 == <<"r", "2", "i", "1", "p", "1", "f", "1">>
r10i1p1f1 == <<"r", "1", "0", "i", "1", "p", "1", "f", "1">>
\* no forcing component: the pattern matches nowhere in it
r1i1p1 == <<"r", "1", "i", "1", "p", "1">>
\* the pattern matches inside it, from its second character
xr1i1p1f1 == <<"x", "r", "1", "i", "1", "p", "1", "f", "1">>

MemberIds == {r2i1p1f1, r10i1p1f1, r1i1p1, xr1i1p1f1}

Rows == [source_id : SourceIds, member_id : MemberIds,
         grid_label : GridLabels, variable_id : VariableIds]

(***************************************************************************)
(* The member identifier: Series.str.extract(r"r(\d+)i(\d+)p(\d+)f(\d+)"), *)
(* DataFrame.sort_values([0, 1, 2, 3]) on the extracted strings, and       *)
(* "r{}i{}p{}f{}".format(...) of the first row.                            *)
(***************************************************************************)
Digits == <<"0", "1", "2", "3", "4", "5", "6", "7", "8", "9">>

IsDigit(c) == \E k \in 1..Len(Digits) : Digits[k] = c

\* the code point order of two digit characters
Ord(c) == CHOOSE k \in 1..Len(Digits) : Digits[k] = c

\* \d+ is greedy: the end (exclusive) of the run of digits of s that starts at i
RECURSIVE DigitsEnd(_, _)
DigitsEnd(s, i) ==
    IF i <= Len(s) /\ IsDigit(s[i]) THEN DigitsEnd(s, i + 1) ELSE i

NaN == <<"n", "a", "n">>

NaNRow == <<NaN, NaN, NaN, NaN>>

\* one letter of the pattern followed by (\d+), tried at position i of s:
\* the position after the digits, or 0 when it does not match there
LetterDigits(s, i, letter) ==
    IF i <= Len(s) /\ s[i] = letter /\ DigitsEnd(s, i + 1) > i + 1
    THEN DigitsEnd(s, i + 1)
    ELSE 0

\* the four groups of a match of the pattern that starts at position i of s,
\* or NaNRow when the pattern does not match there
MatchAt(s, i) ==
    LET e1 == LetterDigits(s, i, "r")
        e2 == IF e1 = 0 THEN 0 ELSE LetterDigits(s, e1, "i")
        e3 == IF e2 = 0 THEN 0 ELSE LetterDigits(s, e2, "p")
        e4 == IF e3 = 0 THEN 0 ELSE LetterDigits(s, e3, "f")
    IN  IF e4 = 0
        THEN NaNRow
        ELSE <<SubSeq(s, i + 1, e1 - 1), SubSeq(s, e1 + 1, e2 - 1),
               SubSeq(s, e2 + 1, e3 - 1), SubSeq(s, e3 + 1, e4 - 1)>>

\* str.extract searches the string (re.search): the leftmost match, or NaN in
\* every column when there is none
RECURSIVE ExtractFrom(_, _)
ExtractFrom(s, i) ==
    IF i > Len(s) THEN NaNRow
    ELSE IF MatchAt(s, i) # NaNRow THEN MatchAt(s, i)
    ELSE ExtractFrom(s, i + 1)

extract(s) == ExtractFrom(s, 1)

\* Python's < on two strings of digits: by code point, a proper prefix first
RECURSIVE StrLess(_, _)
StrLess(a, b) ==
    IF b = <<>> THEN FALSE
    ELSE IF a = <<>> THEN TRUE
    ELSE IF Head(a) # Head(b) THEN Ord(Head(a)) < Ord(Head(b))
    ELSE StrLess(Tail(a), Tail(b))

\* the order of two cells of a column of sort_values: the extracted groups are
\* strings (object dtype) and are compared as strings
CellLess(a, b) == StrLess(a, b)

\* the order sort_values([0, 1, 2, 3]) puts two extracted rows in: column by
\* column, left to right; a row of NaN sorts last (na_position="last")
RECURSIVE TupleLess(_, _)
TupleLess(t, u) ==
    IF t = <<>> THEN FALSE
    ELSE IF Head(t) # Head(u) THEN CellLess(Head(t), Head(u))
    ELSE TupleLess(Tail(t), Tail(u))

RowBefore(t, u) ==
    IF t = NaNRow THEN FALSE
    ELSE IF u = NaNRow THEN TRUE
    ELSE TupleLess(t, u)

\* .sort_values([0, 1, 2, 3]).iloc[0] of the extracted frame of a group
FirstSorted(grp) ==
    LET ex == {extract(r.member_id) : r \in grp}
    IN  CHOOSE t \in ex : \A u \in ex : u = t \/ RowBefore(t, u)

\* "r{}i{}p{}f{}".format(*row)
format(t) == <<"r">> \o t[1] \o <<"i">> \o t[2] \o <<"p">> \o t[3] \o <<"f">> \o t[4]

(***************************************************************************)
(* groupby: the groups are subframes of the frame groupby was called on.   *)
(* pandas visits them in the sorted order of their keys; the model lets    *)
(* the loop visit them in any order.                                       *)
(***************************************************************************)
\* the rows of frame whose columns `by` hold the values of row r
Group(frame, by, r) == {x \in frame : \A c \in by : x[c] = r[c]}

Groups(frame, by) == {Group(frame, by, r) : r \in frame}

\* the sequences that list every element of S once
Orders(S) ==
    {o \in [1..Cardinality(S) -> S] :
        \A i, j \in 1..Cardinality(S) : i # j => o[i] # o[j]}

\* DataFrame.drop(index): the rows whose index label is not dropped
drop(frame, index) == frame \ index

(***************************************************************************)
(* remove_ensembles                                                        *)
(***************************************************************************)
EnsembleBy == {"source_id"}

\* the comparison turned around: the rows of the selected member
Matched(grp, member_id) == {x \in grp : x.member_id = member_id}

\* grp[grp.member_id != member_id].index
MisMatched(grp, member_id) == {x \in grp : x.member_id # member_id}

\* the rows of one source_id group that the body of the loop drops
EnsembleDropIndex(grp) == MisMatched(grp, format(FirstSorted(grp)))

\* the loop of remove_ensembles over the groups in the order `order`
RECURSIVE EnsembleLoop(_, _)
EnsembleLoop(order, frame) ==
    IF order = <<>> THEN frame
    ELSE EnsembleLoop(Tail(order), drop(frame, EnsembleDropIndex(Head(order))))

(***************************************************************************)
(* remove_incomplete, with the completeness predicate of the example: its  *)
(* two sets of variables are the parameters of the predicate.              *)
(***************************************************************************)
Predicates == [required : {{}, {"lai"}}, either : {{"nbp"}, {"lai", "nbp"}}]

complete(p, grp) ==
    LET have == {x.variable_id : x \in grp}
    IN  IF p.required \ have # {} THEN FALSE
        ELSE IF have \cap p.either # {} THEN TRUE
        ELSE FALSE

\* the grid label left out of the group key
IncompleteByCoarse == {"source_id", "member_id"}

IncompleteBy == {"source_id", "member_id", "grid_label"}

\* the loop of remove_incomplete over the groups in the order `order`
RECURSIVE IncompleteLoop(_, _, _)
IncompleteLoop(order, frame, p) ==
    IF order = <<>> THEN frame
    ELSE IncompleteLoop(Tail(order),
                        IF ~complete(p, Head(order))
                        THEN drop(frame, Head(order))
                        ELSE frame,
                        p)

(***************************************************************************)
(* search: the configured indices, what each answers, and the loop that    *)
(* collects the answers.  The index clients and combine_results live in    *)
(* intake_esgf.core.                                                       *)
(***************************************************************************)
indices == <<"SolrESGFIndex()", "SolrESGFIndex(esgf-node.ornl.gov)", "GlobusESGFIndex()">>

\* the datasets each index knows of
Holdings(i) ==
    CASE i = 1 -> {[source_id |-> "CESM2", member_id |-> r2i1p1f1,
                    grid_label |-> "gn", variable_id |-> "lai"],
                   [source_id |-> "CESM2", member_id |-> r10i1p1f1,
                    grid_label |-> "gn", variable_id |-> "lai"]}
      [] i = 2 -> {[source_id |-> "CESM2", member_id |-> r10i1p1f1,
                    grid_label |-> "gn", variable_id |-> "lai"],
                   [source_id |-> "UKESM", member_id |-> r1i1p1,
                    grid_label |-> "gn", variable_id |-> "nbp"]}
      [] OTHER -> {[source_id |-> "UKESM", member_id |-> r1i1p1,
                    grid_label |-> "gn", variable_id |-> "nbp"]}

\* the facets of a search: the acceptable values of source_id
Queries == {{"CESM2"}, {"UKESM"}, {"CESM2", "UKESM"}, {"E3SM"}}

\* index.search(**search) when it returns
IndexSearch(i, q) == {r \in Holdings(i) : r.source_id \in q}

\* what index.search does: return its table, or raise one of the two errors
\* the loop catches, or raise any other error (a ConnectionError, say)
Outcomes == {"table", "ValueError", "SearchAPIError", "ConnectionError"}

\* except (ValueError, SearchAPIError): pass
Caught == {"ValueError", "SearchAPIError"}

\* combine_results(dfs): the tables concatenated, duplicates dropped, the
\* index labels made unique
combine_results(dfs) == UNION {dfs[k] : k \in 1..Len(dfs)}

\* The loop of search from index i on.  `bound` tells whether the local
\* variable df has been assigned, `local` is its value, `dfs` the list so
\* far.  dfs.append(df) reads the local variable whatever the try block did.
RECURSIVE SearchLoop(_, _, _, _, _, _)
SearchLoop(i, q, outcome, bound, local, dfs) ==
    IF i > Len(indices) THEN [raised |-> "none", dfs |-> dfs]
    ELSE IF outcome[i] = "table"
    THEN SearchLoop(i + 1, q, outcome, TRUE, IndexSearch(i, q),
                    Append(dfs, IndexSearch(i, q)))
    ELSE IF outcome[i] \in Caught
    THEN IF bound
         THEN SearchLoop(i + 1, q, outcome, TRUE, local, Append(dfs, local))
         ELSE [raised |-> "UnboundLocalError", dfs |-> dfs]
    ELSE [raised |-> outcome[i], dfs |-> dfs]

(***************************************************************************)
(* to_dataset_dict: the keys, and the resolution of every row to files.    *)
(***************************************************************************)
\* the attributes __init__ gives the catalog
Attributes == {"indices", "df", "esgf_data_root", "local_cache"}

\* the facet columns of the frame, in their order
Columns == <<"source_id", "member_id", "grid_label", "variable_id">>

\* the columns the keys are built from
RECURSIVE KeyColumns(_, _, _)
KeyColumns(cols, frame, minimal_keys) ==
    IF cols = <<>> THEN <<>>
    ELSE LET col == Head(cols)
             rest == KeyColumns(Tail(cols), frame, minimal_keys)
         IN  IF minimal_keys /\ \A x, y \in frame : x[col] = y[col]
             THEN rest
             ELSE <<col>> \o rest

\* separator.join([row[k] for k in output_key_format]), as the list joined
Key(row, output_key_format) ==
    [k \in 1..Len(output_key_format) |-> row[output_key_format[k]]]

\* the directory the local lookup searches: "root" for the esgf data root,
\* "cache" for the local cache
data_root == IF esgf_data_root # "None" THEN "root" ELSE "cache"

\* the file of a record at a place
File(row, place) == [record |-> row, at |-> place]

\* The loop of to_dataset_dict over the rows in the order `order`.  `fs`
\* tells which records have their files under the esgf data root, in the
\* local cache, and on a server that answers.  The state of the loop is the
\* mapping ds (a set of <<key, value>>) and the calls made so far.  The body
\* starts by reading self.index_id for the file-listing query: the read
\* raises AttributeError when the catalog has no such attribute.
RECURSIVE ResolveLoop(_, _, _, _, _)
ResolveLoop(order, fmt, fs, ds, calls) ==
    IF order = <<>> THEN [raised |-> "none", ds |-> ds, calls |-> calls]
    ELSE IF "index_id" \notin Attributes
    THEN [raised |-> "AttributeError", ds |-> ds, calls |-> calls]
    ELSE LET row == Head(order)
             found == IF row \in fs[data_root] THEN {File(row, data_root)} ELSE {}
             file_list == IF found # {} THEN found
                          ELSE IF row \in fs.online THEN {File(row, "cache")}
                          ELSE {}
             made == calls \o <<<<"post_search", row>>, <<"local", row>>>>
                     \o (IF found = {} THEN <<<<"download", row>>>> ELSE <<>>)
             key == Key(row, fmt)
             value == IF Cardinality(file_list) = 1 THEN "open_dataset"
                      ELSE IF Cardinality(file_list) > 1 THEN "open_mfdataset"
                      ELSE "Could not obtain this file."
         IN  ResolveLoop(Tail(order), fmt, fs,
                         {e \in ds : e[1] # key} \cup {<<key, value>>}, made)

\* self.df.iterrows(): the rows in the order of the frame
RECURSIVE iterrows(_)
iterrows(frame) ==
    IF frame = {} THEN <<>>
    ELSE LET row == CHOOSE x \in frame : TRUE
         IN  <<row>> \o iterrows(frame \ {row})

NoFiles == [root |-> {}, cache |-> {}, online |-> {}]

(***************************************************************************)
(* The record of the last call.                                            *)
(***************************************************************************)
NoPredicate == [required |-> {}, either |-> {}]

Called(name, raised) ==
    [name |-> name, raised |-> raised, pre_is_None |-> df_is_None, pre |-> df,
     predicate |-> NoPredicate, query |-> {}, outcome |-> <<>>, dfs |-> <<>>,
     combined |-> FALSE, fs |-> NoFiles, calls |-> <<>>, ds |-> {}]

(***************************************************************************)
(* The operations.                                                         *)
(***************************************************************************)
Init ==
    /\ df_is_None = TRUE
    /\ df = {}
    /\ esgf_data_root = "None"
    /\ call = Called("__init__", "none")

search ==
    \E q \in Queries, outcome \in [1..Len(indices) -> Outcomes] :
        LET res == SearchLoop(1, q, outcome, FALSE, {}, <<>>)
        IN  IF res.raised # "none"
            THEN /\ call' = [Called("search", res.raised) EXCEPT
                                !.query = q, !.outcome = outcome,
                                !.dfs = res.dfs]
                 /\ UNCHANGED <<df_is_None, df, esgf_data_root>>
            ELSE /\ df' = combine_results(res.dfs)
                 /\ df_is_None' = FALSE
                 /\ call' = [Called("search", "none") EXCEPT
                                !.query = q, !.outcome = outcome,
                                !.dfs = res.dfs, !.combined = TRUE]
                 /\ UNCHANGED esgf_data_root

\* the directories of the machine
Paths == {"/esgf", "/missing"}

is_dir(root) == root = "/esgf"

set_esgf_data_root ==
    \E root \in Paths :
        IF ~is_dir(root)
        THEN /\ call' = Called("set_esgf_data_root", "AssertionError")
             /\ UNCHANGED <<df_is_None, df, esgf_data_root>>
        ELSE /\ esgf_data_root' = root
             /\ call' = Called("set_esgf_data_root", "none")
             /\ UNCHANGED <<df_is_None, df>>

\* to_dataset_dict, called by the user or by to_datatree
Materialize(name) ==
    \E minimal_keys \in BOOLEAN,
       fs \in [root : SUBSET df, cache : SUBSET df, online : {{}, df}] :
        /\ UNCHANGED <<df_is_None, df, esgf_data_root>>
        /\ IF df_is_None \/ Cardinality(df) = 0
           THEN call' = [Called(name, "ValueError") EXCEPT !.fs = fs]
           ELSE LET fmt == KeyColumns(Columns, df, minimal_keys)
                    res == ResolveLoop(iterrows(df), fmt, fs, {}, <<>>)
                IN  call' = [Called(name, res.raised) EXCEPT
                                !.fs = fs, !.calls = res.calls, !.ds = res.ds]

to_dataset_dict == Materialize("to_dataset_dict")

to_datatree == Materialize("to_datatree")

\* self.df.groupby raises AttributeError when self.df is None
remove_incomplete ==
    \E p \in Predicates, order \in Orders(Groups(df, IncompleteBy)) :
        IF df_is_None
        THEN /\ call' = [Called("remove_incomplete", "AttributeError") EXCEPT
                            !.predicate = p]
             /\ UNCHANGED <<df_is_None, df, esgf_data_root>>
        ELSE /\ df' = IncompleteLoop(order, df, p)
             /\ call' = [Called("remove_incomplete", "none") EXCEPT
                            !.predicate = p]
             /\ UNCHANGED <<df_is_None, esgf_data_root>>

remove_ensembles ==
    \E order \in Orders(Groups(df, EnsembleBy)) :
        IF df_is_None
        THEN /\ call' = Called("remove_ensembles", "AttributeError")
             /\ UNCHANGED <<df_is_None, df, esgf_data_root>>
        ELSE /\ df' = EnsembleLoop(order, df)
             /\ call' = Called("remove_ensembles", "none")
             /\ UNCHANGED <<df_is_None, esgf_data_root>>

Next ==
    \/ search
    \/ set_esgf_data_root
    \/ to_dataset_dict
    \/ to_datatree
    \/ remove_incomplete
    \/ remove_ensembles

Spec == Init /\ [][Next]_vars

(***************************************************************************)
(* The filters on every working set of at most MaxRows rows that a search  *)
(* can leave behind.                                                       *)
(***************************************************************************)
\* the subsets of S of at most n elements
RECURSIVE SubsetsUpTo(_, _)
SubsetsUpTo(S, n) ==
    IF n = 0 THEN {{}}
    ELSE LET smaller == SubsetsUpTo(S, n - 1)
         IN  smaller \cup {s \cup {x} : s \in smaller, x \in S}

WorkingSets == SubsetsUpTo(Rows, MaxRows)

InitFilter ==
    /\ df_is_None = FALSE
    /\ df \in WorkingSets
    /\ esgf_data_root = "None"
    /\ call = Called("search", "none")

NextFilter == remove_incomplete \/ remove_ensembles

SpecFilter == InitFilter /\ [][NextFilter]_vars

(***************************************************************************)
(* What the claims speak of.                                               *)
(***************************************************************************)
Returned == call.raised = "none"

Materialized == call.name \in {"to_dataset_dict", "to_datatree"}

NoWorkingSet == call.pre_is_None \/ call.pre = {}

\* the tables of the indices whose search returned, in configured order
AnsweredTables ==
    LET answered == SelectSeq([i \in 1..Len(indices) |-> i],
                              LAMBDA i : call.outcome[i] = "table")
    IN  [k \in 1..Len(answered) |-> IndexSearch(answered[k], call.query)]

\* the integer a string of digits writes
RECURSIVE IntOf(_)
IntOf(s) ==
    IF s = <<>> THEN 0
    ELSE 10 * IntOf(SubSeq(s, 1, Len(s) - 1)) + (Ord(s[Len(s)]) - 1)

\* a member identifier that is r<int>i<int>p<int>f<int> and nothing else
WellFormed(m) == MatchAt(m, 1) # NaNRow /\ format(MatchAt(m, 1)) = m

\* (realization, initialization, physics, forcing) of a well-formed identifier
Components(m) == [k \in 1..4 |-> IntOf(MatchAt(m, 1)[k])]

\* component-wise integer order, left to right
IntBefore(a, b) ==
    \E k \in 1..4 : a[k] < b[k] /\ \A j \in 1..(k - 1) : a[j] = b[j]

SameSource(x, y) == x.source_id = y.source_id

SameModelGroup(x, y) ==
    /\ x.source_id = y.source_id
    /\ x.member_id = y.member_id
    /\ x.grid_label = y.grid_label

\* how often to_dataset_dict called `what` for a row
Count(what, row) ==
    Cardinality({k \in 1..Len(call.calls) : call.calls[k] = <<what, row>>})

\* the records the local lookup of the last to_dataset_dict finds files for
LookedUp == call.fs[data_root]

\* the output mapping holds an entry for the row
HasEntry(row) ==
    \E e \in call.ds, minimal_keys \in BOOLEAN :
        e[1] = Key(row, KeyColumns(Columns, df, minimal_keys))

\* the output mapping holds a dataset for the row
HasDataset(row) ==
    \E e \in call.ds, minimal_keys \in BOOLEAN :
        /\ e[1] = Key(row, KeyColumns(Columns, df, minimal_keys))
        /\ e[2] \in {"open_dataset", "open_mfdataset"}

(***************************************************************************)
(* C1: when the search of every configured index raises, search() returns  *)
(* without raising, the combiner is called with no table, and the working  *)
(* set is left empty.                                                      *)
(***************************************************************************)
C1_AllIndicesFail ==
    (call.name = "search" /\ \A i \in 1..Len(indices) : call.outcome[i] # "table")
        => /\ Returned
           /\ call.combined
           /\ call.dfs = <<>>
           /\ ~df_is_None
           /\ df = {}

(***************************************************************************)
(* C2: whichever indices raise, search() does not raise and hands the      *)
(* combiner the table of every index that answered, once each, in          *)
(* configured order, and nothing for an index that raised.                 *)
(***************************************************************************)
C2_FailedIndexContributesNothing ==
    call.name = "search"
        => /\ Returned
           /\ call.combined
           /\ call.dfs = AnsweredTables

(***************************************************************************)
(* C3: after remove_ensembles(), in every source_id partition that had two *)
(* or more distinct (well-formed) member identifiers, the rows that are    *)
(* left are exactly the rows of the member identifier that is smallest in  *)
(* component-wise integer order.                                           *)
(***************************************************************************)
C3_IntegerMinimumSurvives ==
    (call.name = "remove_ensembles" /\ Returned)
        => \A r \in call.pre :
              LET grp == {x \in call.pre : SameSource(x, r)}
                  members == {x.member_id : x \in grp}
              IN  (Cardinality(members) >= 2 /\ \A m \in members : WellFormed(m))
                    => \E m \in members :
                          /\ \A o \in members \ {m} :
                                IntBefore(Components(m), Components(o))
                          /\ {x \in df : SameSource(x, r)}
                                = {x \in grp : x.member_id = m}

(***************************************************************************)
(* C4: after remove_incomplete(predicate), the working set is exactly the  *)
(* rows of the groups (source_id, member_id, grid_label) on whose full     *)
(* subtable, drawn from the working set before the call, the predicate was *)
(* true: whatever the order of the groups, and with no row of another      *)
(* group removed.                                                          *)
(***************************************************************************)
C4_SurvivesIffComplete ==
    (call.name = "remove_incomplete" /\ Returned)
        => df = {r \in call.pre :
                    complete(call.predicate,
                             {x \in call.pre : SameModelGroup(x, r)})}

\* a call that removed one group and kept another group of the same source
C4_Witness ==
    /\ call.name = "remove_incomplete"
    /\ Returned
    /\ \E kept \in df, gone \in call.pre \ df : SameSource(kept, gone)

(***************************************************************************)
(* C5: during to_dataset_dict, for every record of the working set: when   *)
(* the local lookup yields a file the download is not invoked for it, and  *)
(* when it yields nothing the download is invoked exactly once for it,     *)
(* after its local lookup.                                                 *)
(***************************************************************************)
C5_DownloadIffLocalMiss ==
    (Materialized /\ ~NoWorkingSet)
        => \A r \in df :
              IF r \in LookedUp
              THEN Count("download", r) = 0
              ELSE /\ Count("download", r) = 1
                   /\ \E i, j \in 1..Len(call.calls) :
                         /\ i < j
                         /\ call.calls[i] = <<"local", r>>
                         /\ call.calls[j] = <<"download", r>>

(***************************************************************************)
(* C6: for every record of a non-empty working set, to_dataset_dict ends   *)
(* with a dataset or the failure marker under the record's key, and no     *)
(* error of the resolution chain reaches the caller.                       *)
(***************************************************************************)
C6_ResolutionNeverRaises ==
    (Materialized /\ ~NoWorkingSet)
        => /\ Returned
           /\ \A r \in df : HasEntry(r)

(***************************************************************************)
(* C7: when a record of the working set has a member identifier that is    *)
(* not r<int>i<int>p<int>f<int>, remove_ensembles() reports an error.      *)
(***************************************************************************)
C7_MalformedMemberReported ==
    (/\ call.name = "remove_ensembles"
     /\ ~call.pre_is_None
     /\ \E r \in call.pre : ~WellFormed(r.member_id))
        => ~Returned

(***************************************************************************)
(* C8: remove_ensembles() is idempotent: once it has returned, running its *)
(* loop again on the working set it left, in any order of the groups,      *)
(* leaves that working set as it is.                                       *)
(***************************************************************************)
C8_Idempotent ==
    (call.name = "remove_ensembles" /\ Returned)
        => \A order \in Orders(Groups(df, EnsembleBy)) :
              EnsembleLoop(order, df) = df

\* a call that removed rows of a source and left others of it
C8_Witness ==
    /\ call.name = "remove_ensembles"
    /\ Returned
    /\ \E kept \in df, gone \in call.pre \ df : SameSource(kept, gone)

(***************************************************************************)
(* C9: on a working set that is empty or was never populated, the filters  *)
(* do not raise, and to_dataset_dict / to_datatree raise before any query, *)
(* lookup or download and leave the working set as it was.                 *)
(***************************************************************************)
C9_EmptyIsAnErrorOnlyAtMaterialization ==
    NoWorkingSet
        => /\ call.name \in {"remove_incomplete", "remove_ensembles"} => Returned
           /\ Materialized => /\ call.raised = "ValueError"
                              /\ call.calls = <<>>
                              /\ df = call.pre
                              /\ df_is_None = call.pre_is_None

(***************************************************************************)
(* C10: resolution goes local root, then cache, then download: whether or  *)
(* not esgf_data_root is configured, a record with no file under the root  *)
(* and its files in the cache is opened from the cache, and the download   *)
(* is invoked only for a record with files in neither place.               *)
(***************************************************************************)
C10_RootThenCacheThenDownload ==
    (Materialized /\ ~NoWorkingSet)
        => \A r \in df :
              /\ (r \notin call.fs.root /\ r \in call.fs.cache) => HasDataset(r)
              /\ Count("download", r) > 0
                    => (r \notin call.fs.root /\ r \notin call.fs.cache)

=============================================================================
